---------------------------- MODULE Spec2Model ----------------------------
(***************************************************************************)
(* Model of the Jooble job scraper: config.py (credential validation),     *)
(* secure_tableau_script.py (the Tableau Analytics Extension script body)  *)
(* and secure_vscode_script.py (get_job_data).                             *)
(*                                                                         *)
(* A text is a sequence of tokens.  The tokens " " and "," are the blank   *)
(* and the comma; every other token stands for a run of characters that    *)
(* holds neither.  A cell of a table is a record [t, v]: t is the Python   *)
(* type of the value ("null" for None/NaN, "int", "float", "text") and v   *)
(* the text str() gives for it (for a float that came from the int n, the  *)
(* one token of n's digits: Str adds the ".0").                            *)
(***************************************************************************)
EXTENDS Integers, Sequences, FiniteSets, TLC

\* ------------------------------------------------------------------ bounds
\* Longest location text (in tokens) drawn for the city/state derivation.
MaxLocLen == 5
\* Longest accumulated job list drawn for the normalizer.
MaxJobs == 3
\* Largest DEFAULT_MAX_PAGES drawn for the page loop.
MaxPagesCfg == 4
\* Largest DEFAULT_TARGET_JOBS drawn for the page loop.
MaxTargetCfg == 4
\* Longest "jobs" array a page returns.
MaxPageJobs == 2

\* ------------------------------------------------------------------- texts
Blank == " "
Comma == ","
NA == <<"N/A">>

Null == [t |-> "null", v |-> <<>>]
IntCell(digits) == [t |-> "int", v |-> digits]
TextCell(s) == [t |-> "text", v |-> s]

\* str.strip(): drop the blanks at both ends.
RECURSIVE LStrip(_)
LStrip(s) ==
    IF s # <<>> /\ Head(s) = Blank THEN LStrip(Tail(s)) ELSE s

RECURSIVE RStrip(_)
RStrip(s) ==
    IF s # <<>> /\ s[Len(s)] = Blank THEN RStrip(SubSeq(s, 1, Len(s) - 1)) ELSE s

Strip(s) == RStrip(LStrip(s))

\* ',' in location_str
Contains(s, tok) == \E i \in 1..Len(s) : s[i] = tok

\* str.split(','): the parts between the commas, left to right.
RECURSIVE SplitFrom(_, _, _)
SplitFrom(s, i, cur) ==
    IF i > Len(s) THEN <<cur>>
    ELSE IF s[i] = Comma THEN <<cur>> \o SplitFrom(s, i + 1, <<>>)
    ELSE SplitFrom(s, i + 1, Append(cur, s[i]))

Split(s) == SplitFrom(s, 1, <<>>)

\* A plausible slip: the state taken from the part after the first comma.
extract_city_state_second_part(location_str) ==
    LET s == Strip(location_str)
        parts == Split(s)
    IN  IF Contains(s, Comma)
        THEN [city |-> Strip(parts[1]), state |-> Strip(parts[2])]
        ELSE [city |-> s, state |-> NA]

\* extract_city_state: the location cell is already text when it is applied,
\* so str() is the identity and the except branch cannot be taken.
extract_city_state(location_str) ==
    LET s == Strip(location_str)
        parts == Split(s)
    IN  IF Contains(s, Comma)
        THEN [city |-> Strip(parts[1]), state |-> Strip(parts[Len(parts)])]
        ELSE [city |-> s, state |-> NA]

\* ------------------------------------------------------------------ tables
required_columns ==
    <<"id", "title", "company", "location", "snippet",
      "salary", "type", "source", "link", "updated">>

final_columns ==
    <<"id", "title", "company", "location", "city", "state",
      "snippet", "salary", "type", "source", "link", "updated">>

\* The keys a record of the model can carry, in the order the frame lists
\* them; "extra" is a field of the API that is not a required column.
KnownKeys == final_columns \o <<"extra">>

Range(s) == {s[i] : i \in 1..Len(s)}

\* An item of a "jobs" array: a JSON object (a mapping) or a JSON null.
Mapping(f) == [kind |-> "mapping", fields |-> f]
NullItem == [kind |-> "null", fields |-> <<>>]
IsMapping(item) == item.kind = "mapping"

Keys(item) == DOMAIN item.fields

\* The cell pandas infers for one value of a column: a column whose values
\* are all numbers or missing, with at least one missing, becomes float64.
ColumnIsFloat(data, c) ==
    /\ \E i \in 1..Len(data) : c \notin Keys(data[i]) \/ data[i].fields[c].t = "null"
    /\ \E i \in 1..Len(data) : c \in Keys(data[i]) /\ data[i].fields[c].t = "int"
    /\ \A i \in 1..Len(data) :
          c \in Keys(data[i]) => data[i].fields[c].t \in {"int", "null"}

FrameCell(data, i, c) ==
    IF c \notin Keys(data[i]) THEN Null
    ELSE LET x == data[i].fields[c]
         IN  IF x.t = "int" /\ ColumnIsFloat(data, c)
             THEN [t |-> "float", v |-> x.v]
             ELSE x

\* pd.DataFrame(all_jobs) on a non-empty list.  A list whose first item is a
\* mapping is read as a list of records and raises (AttributeError) on an
\* item that is none; a list whose first item is a scalar becomes a frame
\* of one unnamed column holding the items.
DataFrame(data) ==
    IF IsMapping(data[1])
    THEN IF \A i \in 1..Len(data) : IsMapping(data[i])
         THEN [raised |-> FALSE,
               columns |-> SelectSeq(KnownKeys,
                               LAMBDA c : \E i \in 1..Len(data) : c \in Keys(data[i])),
               rows |-> [i \in 1..Len(data) |->
                           [c \in UNION {Keys(data[j]) : j \in 1..Len(data)} |->
                               FrameCell(data, i, c)]]]
         ELSE [raised |-> TRUE, columns |-> <<>>, rows |-> <<>>]
    ELSE [raised |-> FALSE,
          columns |-> <<"0">>,
          rows |-> [i \in 1..Len(data) |-> [c \in {"0"} |-> Null]]]

\* for column in required_columns: if column not in df.columns: df[column] = 'N/A'
AddMissingColumns(df) ==
    [columns |-> df.columns \o
                 SelectSeq(required_columns, LAMBDA c : c \notin Range(df.columns)),
     rows |-> [i \in 1..Len(df.rows) |->
                 [c \in Range(df.columns) \cup Range(required_columns) |->
                     IF c \in Range(df.columns) THEN df.rows[i][c] ELSE TextCell(NA)]]]

\* df = df[cols]
Project(df, cols) ==
    [columns |-> cols,
     rows |-> [i \in 1..Len(df.rows) |-> [c \in Range(cols) |-> df.rows[i][c]]]]

\* A plausible slip: the result of fillna is dropped, so nothing is filled.
FillNaDropped(df) == df

\* df.fillna('N/A')
FillNa(df) ==
    [columns |-> df.columns,
     rows |-> [i \in 1..Len(df.rows) |->
                 [c \in Range(df.columns) |->
                     IF df.rows[i][c].t = "null" THEN TextCell(NA) ELSE df.rows[i][c]]]]

\* A plausible slip: repr() in place of str(), which quotes a text.
StrRepr(x) ==
    IF x.t = "float" THEN <<x.v[1] \o ".0">>
    ELSE IF x.t = "text" THEN <<"'">> \o x.v \o <<"'">>
    ELSE x.v

\* str(x) of a cell (no cell is null once fillna has run).
Str(x) ==
    IF x.t = "float" THEN <<x.v[1] \o ".0">> ELSE x.v

\* df[column] = df[column].astype(str), for every column
AsTypeStr(df) ==
    [columns |-> df.columns,
     rows |-> [i \in 1..Len(df.rows) |->
                 [c \in Range(df.columns) |-> TextCell(Str(df.rows[i][c]))]]]

\* df[['city', 'state']] = df['location'].apply(...)
AddCityState(df) ==
    [columns |-> df.columns \o <<"city", "state">>,
     rows |-> [i \in 1..Len(df.rows) |->
                 [c \in Range(df.columns) \cup {"city", "state"} |->
                     IF c = "city"
                     THEN TextCell(extract_city_state(df.rows[i]["location"].v).city)
                     ELSE IF c = "state"
                     THEN TextCell(extract_city_state(df.rows[i]["location"].v).state)
                     ELSE df.rows[i][c]]]]

SubsetKey(row, subset) == [k \in 1..Len(subset) |-> row[subset[k]]]

\* A plausible slip: keep='last'.
drop_duplicates_keep_last(df, subset) ==
    LET keep(i) == \A j \in (i + 1)..Len(df.rows) :
                       SubsetKey(df.rows[j], subset) # SubsetKey(df.rows[i], subset)
        RECURSIVE Kept(_)
        Kept(i) == IF i > Len(df.rows) THEN <<>>
                   ELSE (IF keep(i) THEN <<df.rows[i]>> ELSE <<>>) \o Kept(i + 1)
    IN  [columns |-> df.columns, rows |-> Kept(1)]

\* df.drop_duplicates(subset=[...], keep='first'): scan the rows in order and
\* drop a row whose key was seen before.
drop_duplicates(df, subset) ==
    LET RECURSIVE Scan(_, _)
        Scan(i, seen) ==
            IF i > Len(df.rows) THEN <<>>
            ELSE LET k == SubsetKey(df.rows[i], subset)
                 IN  IF k \in seen THEN Scan(i + 1, seen)
                     ELSE <<df.rows[i]>> \o Scan(i + 1, seen \cup {k})
    IN  [columns |-> df.columns, rows |-> Scan(1, {})]

dedupe_subset == <<"id", "title", "company">>

\* The frame the normalization block holds just before drop_duplicates.
Prepared(frame) ==
    AddCityState(AsTypeStr(FillNa(Project(AddMissingColumns(frame), required_columns))))

\* The normalization block (if all_jobs: ...): the table, or the exception
\* pd.DataFrame raised.
Normalizer(all_jobs_) ==
    LET made == DataFrame(all_jobs_)
    IN  IF made.raised
        THEN [raised |-> TRUE, columns |-> <<>>, rows |-> <<>>]
        ELSE LET df == Project(drop_duplicates(Prepared(made), dedupe_subset),
                               final_columns)
             IN  [raised |-> FALSE, columns |-> df.columns, rows |-> df.rows]


\* ----------------------------------------------------------- diagnostics
Digits == <<"0", "1", "2", "3", "4", "5", "6", "7", "8", "9">>

\* str(n) of a count
StrNat(n) ==
    IF n < 10 THEN <<Digits[n + 1]>>
    ELSE <<Digits[(n \div 10) + 1], Digits[(n % 10) + 1]>>

\* str(b) of a bool
StrBool(b) == IF b THEN <<"True">> ELSE <<"False">>

\* pd.DataFrame(diagnostic_data): data is the dict as a sequence of
\* <<column, list of values>>; lists of different lengths raise ValueError
\* ("All arrays must be of the same length").
DataFrameFromDict(data) ==
    IF \E i, j \in 1..Len(data) : Len(data[i][2]) # Len(data[j][2])
    THEN [raised |-> TRUE, columns |-> <<>>, rows |-> <<>>]
    ELSE [raised |-> FALSE,
          columns |-> [i \in 1..Len(data) |-> data[i][1]],
          rows |-> [r \in 1..Len(data[1][2]) |->
                      [c \in {data[i][1] : i \in 1..Len(data)} |->
                          TextCell(data[CHOOSE i \in 1..Len(data) : data[i][1] = c][2][r])]]]


\* ------------------------------------------------------------------- state
VARIABLES
    script,                 \* the entry point that runs: "tableau" or "vscode"
    JOB_API_KEY,            \* Config.JOB_API_KEY: os.getenv('JOB_API_KEY')
    DEFAULT_MAX_PAGES,      \* Config.DEFAULT_MAX_PAGES
    DEFAULT_TARGET_JOBS,    \* Config.DEFAULT_TARGET_JOBS
    pc,                     \* the entry point's position
    locals_bound,           \* search_keywords .. max_pages are in locals()
    max_pages,
    target_jobs,
    page,                   \* the for loop's variable (0 before the loop)
    all_jobs,
    api_response_received,
    pages_fetched,
    jobs_found_count,
    response,               \* the response read for the current page
    open_conns,             \* the pages whose connection holds an open socket
    exc,                    \* type(e).__name__ of the exception being handled
    df,                     \* the table bound to df
    validated,              \* history: validate_required_credentials has run
    requests,               \* history: the pages request() was called for
    log,                    \* history: each page's outcome, in order
    tableau_run             \* the Tableau script's finished run, kept while
                            \* get_job_data runs on the same inputs (PairSpec)

vars ==
    <<script, JOB_API_KEY, DEFAULT_MAX_PAGES, DEFAULT_TARGET_JOBS, pc,
      locals_bound, max_pages, target_jobs, page, all_jobs,
      api_response_received, pages_fetched, jobs_found_count, response,
      open_conns, exc, df, validated, requests, log, tableau_run>>

\* What no step of an entry point changes.
config_vars ==
    <<script, JOB_API_KEY, DEFAULT_MAX_PAGES, DEFAULT_TARGET_JOBS, tableau_run>>

\* os.getenv('JOB_API_KEY'): None when unset, else the text set (maybe empty).
KeyUnset == [is_set |-> FALSE, value |-> ""]
KeyEmpty == [is_set |-> TRUE, value |-> ""]
KeyGiven == [is_set |-> TRUE, value |-> "k3y"]

\* A plausible slip: only an unset key counts as missing.
MissingCredentialsIsNone(key) ==
    IF ~key.is_set THEN <<"JOB_API_KEY">> ELSE <<>>

\* Config.validate_required_credentials: the list `missing`; it raises
\* ValueError when the list is not empty.  `not cls.JOB_API_KEY` holds for
\* None and for ''.
MissingCredentials(key) ==
    IF ~key.is_set \/ key.value = "" THEN <<"JOB_API_KEY">> ELSE <<>>

NoTable == [columns |-> <<>>, rows |-> <<>>]
NoResponse == [status |-> 0, body |-> [kind |-> "none", jobs |-> <<>>]]

\* search_keywords: Config has no DEFAULT_SEARCH_KEYWORDS, so the default.
search_keywords == <<"tableau">>
\* search_location: Config.DEFAULT_SEARCH_LOCATION (default 'us').
search_location == <<"us">>

Timestamp == <<"%Y-%m-%d %H:%M:%S">>

\* The Tableau script's credential diagnostic: Setup_Steps lists three values
\* where every other column lists one.
credential_data_tableau ==
    <<  <<"Status", <<<<"CREDENTIAL_ERROR">>>> >>,
        <<"Issue", <<<<"Missing API credentials: ",
                      "Missing required environment variables: ", "JOB_API_KEY">>>> >>,
        <<"Solution", <<<<"Create .env file with JOB_API_KEY=your_api_key_here">>>> >>,
        <<"Required_Files", <<<<".env file with JOB_API_KEY">>>> >>,
        <<"Setup_Steps", << <<"1. Copy .env.template to .env">>,
                            <<"2. Add your Jooble API key">>,
                            <<"3. Refresh this data source">> >> >>,
        <<"Documentation", <<<<"See project README for complete setup instructions">>>> >>,
        <<"Timestamp", <<Timestamp>> >>  >>

credential_data_vscode ==
    <<  <<"Status", <<<<"CREDENTIAL_ERROR">>>> >>,
        <<"Issue", <<<<"Missing API credentials: ",
                      "Missing required environment variables: ", "JOB_API_KEY">>>> >>,
        <<"Solution", <<<<"Create .env file with JOB_API_KEY=your_api_key_here">>>> >>,
        <<"Required_Files", <<<<".env file with JOB_API_KEY">>>> >>,
        <<"Current_API_Key", <<<<"Not loaded from environment">>>> >>,
        <<"Timestamp", <<Timestamp>> >>,
        <<"Next_Steps", <<<<"1. Copy .env.template to .env, 2. Add your API key, 3. Run again">>>> >>  >>

credential_data ==
    IF script = "tableau" THEN credential_data_tableau ELSE credential_data_vscode

zero_jobs_issue ==
    IF api_response_received
    THEN <<"API connected successfully but found 0 jobs for ">> \o search_keywords
         \o <<" in ">> \o search_location \o <<" across ">> \o StrNat(pages_fetched)
         \o <<" pages. Try different search terms or location.">>
    ELSE <<"Failed to connect to the Jooble API. Check internet connection and API key.">>

\* A plausible slip: the two page counts swapped.
zero_jobs_data_swapped ==
    <<  <<"Status", <<<<"ERROR">>>> >>,
        <<"Issue", <<zero_jobs_issue>> >>,
        <<"Search_Keywords", <<search_keywords>> >>,
        <<"Search_Location", <<search_location>> >>,
        <<"Target_Jobs", <<StrNat(target_jobs)>> >>,
        <<"Pages_Attempted", <<StrNat(pages_fetched)>> >>,
        <<"Pages_Fetched", <<StrNat(max_pages)>> >>,
        <<"API_Response_Received", <<StrBool(api_response_received)>> >>,
        <<"Jobs_Found", <<StrNat(jobs_found_count)>> >>,
        <<"Suggestion", <<<<"Check search terms, location, internet connection, or API key">>>> >>,
        IF script = "tableau"
        THEN <<"API_Key_Status", <<<<"Loaded from environment variables">>>> >>
        ELSE <<"API_Key_First_4_Chars", <<<<JOB_API_KEY.value, "...">>>> >>,
        <<"Timestamp", <<Timestamp>> >>,
        <<"Next_Steps", <<<<"Try broader search terms or different location codes (us, uk, ca, au, etc.)">>>> >>  >>

\* The zero-jobs diagnostic (the else of `if all_jobs`).
zero_jobs_data ==
    <<  <<"Status", <<<<"ERROR">>>> >>,
        <<"Issue", <<zero_jobs_issue>> >>,
        <<"Search_Keywords", <<search_keywords>> >>,
        <<"Search_Location", <<search_location>> >>,
        <<"Target_Jobs", <<StrNat(target_jobs)>> >>,
        <<"Pages_Attempted", <<StrNat(max_pages)>> >>,
        <<"Pages_Fetched", <<StrNat(pages_fetched)>> >>,
        <<"API_Response_Received", <<StrBool(api_response_received)>> >>,
        <<"Jobs_Found", <<StrNat(jobs_found_count)>> >>,
        <<"Suggestion", <<<<"Check search terms, location, internet connection, or API key">>>> >>,
        IF script = "tableau"
        THEN <<"API_Key_Status", <<<<"Loaded from environment variables">>>> >>
        ELSE <<"API_Key_First_4_Chars", <<<<JOB_API_KEY.value, "...">>>> >>,
        <<"Timestamp", <<Timestamp>> >>,
        <<"Next_Steps", <<<<"Try broader search terms or different location codes (us, uk, ca, au, etc.)">>>> >>  >>

python_error_columns ==
    <<  <<"Status", <<<<"PYTHON_ERROR">>>> >>,
        <<"Error_Type", <<<<exc>>>> >>,
        <<"Error_Message", <<<<"str(e)">>>> >>,
        <<"Search_Keywords", <<IF locals_bound THEN search_keywords ELSE <<"Not set">> >> >>,
        <<"Search_Location", <<IF locals_bound THEN search_location ELSE <<"Not set">> >> >>,
        <<"Target_Jobs", <<IF locals_bound THEN StrNat(target_jobs) ELSE <<"120">> >> >>,
        <<"Pages_Attempted", <<IF locals_bound THEN StrNat(max_pages) ELSE <<"4">> >> >>,
        <<"Pages_Fetched", <<StrNat(pages_fetched)>> >>,
        <<"API_Response_Received", <<StrBool(api_response_received)>> >>,
        <<"Jobs_Found", <<StrNat(jobs_found_count)>> >>,
        <<"Troubleshooting", <<<<"Check: 1) Internet connection, 2) API key validity, 3) Search parameters">>>> >>,
        <<"Timestamp", <<Timestamp>> >>,
        <<"Common_Solutions", <<<<"Verify TabPy connection, check firewall settings, or try simpler search terms">>>> >>  >>

\* A plausible slip: a column of the handler's table listing several values,
\* as Setup_Steps does in the credential diagnostic.
python_error_data_uneven ==
    python_error_columns \o
    << <<"Next_Steps", << <<"1. Check the connection">>, <<"2. Check the key">> >> >> >>

\* The PYTHON_ERROR diagnostic of the outer handler.
python_error_data ==
    IF script = "tableau"
    THEN python_error_columns \o
         << <<"Security_Note",
              <<<<"API credentials now loaded securely from environment variables">>>> >> >>
    ELSE python_error_columns


\* ------------------------------------------------------------------ inputs
\* A raw job of the API.  title, company and the field "extra" are always
\* sent; id, location and snippet are sent or left out.
Field(name, present, value) ==
    IF present THEN (name :> value) ELSE [x \in {} |-> Null]

RawJob(id, location, snippet) ==
    Mapping(("title" :> TextCell(<<"a">>)) @@ ("company" :> TextCell(<<"b">>))
            @@ ("extra" :> TextCell(<<"z">>))
            @@ Field("id", id.present, id.value)
            @@ Field("location", location.present, location.value)
            @@ Field("snippet", snippet.present, snippet.value))

Present(value) == [present |-> TRUE, value |-> value]
Absent == [present |-> FALSE, value |-> Null]

\* The jobs the pages of the page loop are made of: the same job sent with
\* its id once as a number and once as a text, and a JSON null.
Job1 == RawJob(Present(IntCell(<<"1">>)), Present(TextCell(<<"a", ",", " ", "b">>)),
               Present(TextCell(<<"x">>)))
Job2 == RawJob(Present(TextCell(<<"1">>)), Absent, Present(TextCell(<<"y">>)))

RECURSIVE SeqsUpTo(_, _)
SeqsUpTo(S, n) ==
    IF n = 0 THEN {<<>>}
    ELSE LET shorter == SeqsUpTo(S, n - 1)
         IN  shorter \cup {Append(q, x) : q \in {r \in shorter : Len(r) = n - 1}, x \in S}

PageLists ==
    SeqsUpTo({Job1, Job2}, MaxPageJobs) \cup {<<NullItem>>, <<Job1, NullItem>>}

\* The body of a response: not JSON, JSON that is no object, an object
\* without "jobs", or an object whose "jobs" is a list.
Bodies ==
    {[kind |-> k, jobs |-> <<>>] : k \in {"malformed", "not_object", "no_jobs_key"}}
    \cup {[kind |-> "jobs", jobs |-> l] : l \in PageLists}

Statuses == {200, 500}

Responses == [status : Statuses, body : Bodies]

\* --------------------------------------------------------------- behaviour
\* No run of the Tableau script is being compared with.
NoRun == [done |-> FALSE, df |-> NoTable, log |-> <<>>]

Init ==
    /\ script \in {"tableau", "vscode"}
    /\ JOB_API_KEY \in {KeyUnset, KeyEmpty, KeyGiven}
    /\ DEFAULT_MAX_PAGES \in 0..MaxPagesCfg
    /\ DEFAULT_TARGET_JOBS \in 1..MaxTargetCfg
    /\ pc = "start"
    /\ locals_bound = FALSE
    /\ max_pages = 0
    /\ target_jobs = 0
    /\ page = 0
    /\ all_jobs = <<>>
    /\ api_response_received = FALSE
    /\ pages_fetched = 0
    /\ jobs_found_count = 0
    /\ response = NoResponse
    /\ open_conns = {}
    /\ exc = "none"
    /\ df = NoTable
    /\ validated = FALSE
    /\ requests = <<>>
    /\ log = <<>>
    /\ tableau_run = NoRun

\* Config.validate_required_credentials() returns; the settings are loaded.
CredentialsOk ==
    /\ pc = "start"
    /\ MissingCredentials(JOB_API_KEY) = <<>>
    /\ validated' = TRUE
    /\ locals_bound' = TRUE
    /\ target_jobs' = DEFAULT_TARGET_JOBS
    /\ max_pages' = DEFAULT_MAX_PAGES
    /\ all_jobs' = <<>>
    /\ pc' = "loop"
    /\ UNCHANGED <<config_vars, page, api_response_received, pages_fetched,
                   jobs_found_count, response, open_conns, exc, df, requests, log>>

\* except ValueError as cred_error: the credential diagnostic is built.  In
\* get_job_data the handler returns it; in the Tableau script df is bound
\* and control reaches `return df`.  An exception raised by pd.DataFrame
\* inside the handler goes to the outer `except Exception`.
CredentialError ==
    /\ pc = "start"
    /\ MissingCredentials(JOB_API_KEY) # <<>>
    /\ validated' = TRUE
    /\ LET made == DataFrameFromDict(credential_data)
       IN  IF made.raised
           THEN /\ exc' = "ValueError"
                /\ pc' = "except"
                /\ df' = df
           ELSE /\ exc' = exc
                /\ df' = [columns |-> made.columns, rows |-> made.rows]
                /\ pc' = IF script = "vscode" THEN "done" ELSE "return"
    /\ UNCHANGED <<config_vars, locals_bound, max_pages, target_jobs, page, all_jobs,
                   api_response_received, pages_fetched, jobs_found_count, response,
                   open_conns, requests, log>>

\* A plausible slip: range(1, max_pages + 2), one page too many.
ForPageOneMore ==
    /\ pc = "loop"
    /\ IF page < max_pages + 1
       THEN page' = page + 1 /\ pc' = "request"
       ELSE page' = page /\ pc' = "after_loop"
    /\ UNCHANGED <<config_vars, locals_bound, max_pages, target_jobs, all_jobs,
                   api_response_received, pages_fetched, jobs_found_count, response,
                   open_conns, exc, df, validated, requests, log>>

\* for page in range(1, max_pages + 1): the next page, or the loop's end.
ForPage ==
    /\ pc = "loop"
    /\ IF page < max_pages
       THEN page' = page + 1 /\ pc' = "request"
       ELSE page' = page /\ pc' = "after_loop"
    /\ UNCHANGED <<config_vars, locals_bound, max_pages, target_jobs, all_jobs,
                   api_response_received, pages_fetched, jobs_found_count, response,
                   open_conns, exc, df, validated, requests, log>>

LogEntry(outcome, jobs) == [page |-> page, outcome |-> outcome, jobs |-> jobs]

\* http.client.HTTPConnection(website) and web_connection.request(...): the
\* request is sent, or connecting fails (no socket), or sending fails on
\* the connected socket.
Request ==
    /\ pc = "request"
    /\ requests' = Append(requests, page)
    /\ \E outcome \in {"sent", "connect_failed", "send_failed"} :
          /\ open_conns' = IF outcome = "connect_failed" THEN open_conns
                           ELSE open_conns \cup {page}
          /\ IF outcome = "sent"
             THEN pc' = "getresponse" /\ log' = log
             ELSE pc' = "page_except" /\ log' = Append(log, LogEntry(outcome, <<>>))
    /\ UNCHANGED <<config_vars, locals_bound, max_pages, target_jobs, page, all_jobs,
                   api_response_received, pages_fetched, jobs_found_count, response,
                   exc, df, validated>>

\* web_connection.getresponse() and response.read().decode('utf-8') return:
\* api_response_received and pages_fetched are set.  When the response says
\* the connection will close, http.client closes the socket itself once the
\* body is read; otherwise the socket stays open.
ReadResponse ==
    /\ pc = "getresponse"
    /\ \E r \in Responses : response' = r
    /\ \E will_close \in BOOLEAN :
          open_conns' = IF will_close THEN open_conns \ {page} ELSE open_conns
    /\ api_response_received' = TRUE
    /\ pages_fetched' = page
    /\ pc' = "parse"
    /\ UNCHANGED <<config_vars, locals_bound, max_pages, target_jobs, page, all_jobs,
                   jobs_found_count, exc, df, validated, requests, log>>

\* getresponse(), read() or decode() raises.  On a ConnectionError
\* getresponse() has closed the connection; on any other exception the
\* socket is left as it is.
ReadFails ==
    /\ pc = "getresponse"
    /\ \E connection_error \in BOOLEAN :
          open_conns' = IF connection_error THEN open_conns \ {page} ELSE open_conns
    /\ log' = Append(log, LogEntry("read_failed", <<>>))
    /\ pc' = "page_except"
    /\ UNCHANGED <<config_vars, locals_bound, max_pages, target_jobs, page, all_jobs,
                   api_response_received, pages_fetched, jobs_found_count, response,
                   exc, df, validated, requests>>

\* json.loads(response_text) raises, or the JSON value has no .get
ParseFails ==
    /\ pc = "parse"
    /\ response.body.kind \in {"malformed", "not_object"}
    /\ log' = Append(log, LogEntry(response.body.kind, <<>>))
    /\ response' = NoResponse
    /\ pc' = "page_except"
    /\ UNCHANGED <<config_vars, locals_bound, max_pages, target_jobs, page, all_jobs,
                   api_response_received, pages_fetched, jobs_found_count,
                   open_conns, exc, df, validated, requests>>

\* A plausible slip: an empty page does not end the loop.
ProcessPageNoEmptyStop ==
    /\ pc = "parse"
    /\ response.body.kind \in {"no_jobs_key", "jobs"}
    /\ LET jobs_list == response.body.jobs
       IN  /\ open_conns' = open_conns \ {page}
           /\ all_jobs' = all_jobs \o jobs_list
           /\ log' = Append(log, LogEntry(IF jobs_list # <<>> THEN "jobs" ELSE "empty",
                                          jobs_list))
           /\ pc' = IF Len(all_jobs \o jobs_list) >= target_jobs
                    THEN "after_loop" ELSE "loop"
    /\ response' = NoResponse
    /\ UNCHANGED <<config_vars, locals_bound, max_pages, target_jobs, page,
                   api_response_received, pages_fetched, jobs_found_count,
                   exc, df, validated, requests>>

\* The body parsed: jobs_list = response_data.get("jobs", []), the
\* connection is closed, the jobs are added and the stopping rules applied
\* (target reached: break; empty page: break; else sleep and go on).
ProcessPage ==
    /\ pc = "parse"
    /\ response.body.kind \in {"no_jobs_key", "jobs"}
    /\ LET jobs_list == response.body.jobs
       IN  /\ open_conns' = open_conns \ {page}
           /\ IF jobs_list # <<>>
              THEN /\ all_jobs' = all_jobs \o jobs_list
                   /\ log' = Append(log, LogEntry("jobs", jobs_list))
                   /\ pc' = IF Len(all_jobs \o jobs_list) >= target_jobs
                            THEN "after_loop" ELSE "loop"
              ELSE /\ all_jobs' = all_jobs
                   /\ log' = Append(log, LogEntry("empty", <<>>))
                   /\ pc' = "after_loop"
    /\ response' = NoResponse
    /\ UNCHANGED <<config_vars, locals_bound, max_pages, target_jobs, page,
                   api_response_received, pages_fetched, jobs_found_count,
                   exc, df, validated, requests>>

\* A plausible slip: `continue` in place of `break`.
PageErrorContinue ==
    /\ pc = "page_except"
    /\ pc' = "loop"
    /\ UNCHANGED <<config_vars, locals_bound, max_pages, target_jobs, page, all_jobs,
                   api_response_received, pages_fetched, jobs_found_count, response,
                   open_conns, exc, df, validated, requests, log>>

\* except Exception as page_error: break
PageError ==
    /\ pc = "page_except"
    /\ pc' = "after_loop"
    /\ UNCHANGED <<config_vars, locals_bound, max_pages, target_jobs, page, all_jobs,
                   api_response_received, pages_fetched, jobs_found_count, response,
                   open_conns, exc, df, validated, requests, log>>

\* jobs_found_count = len(all_jobs)
CountJobs ==
    /\ pc = "after_loop"
    /\ jobs_found_count' = Len(all_jobs)
    /\ pc' = "branch"
    /\ UNCHANGED <<config_vars, locals_bound, max_pages, target_jobs, page, all_jobs,
                   api_response_received, pages_fetched, response,
                   open_conns, exc, df, validated, requests, log>>

\* if all_jobs: the normalization block; what it raises goes to the outer
\* `except Exception`.
NormalizeJobs ==
    /\ pc = "branch"
    /\ all_jobs # <<>>
    /\ LET made == Normalizer(all_jobs)
       IN  IF made.raised
           THEN exc' = "AttributeError" /\ pc' = "except" /\ df' = df
           ELSE /\ exc' = exc
                /\ pc' = "return"
                /\ df' = [columns |-> made.columns, rows |-> made.rows]
    /\ UNCHANGED <<config_vars, locals_bound, max_pages, target_jobs, page, all_jobs,
                   api_response_received, pages_fetched, jobs_found_count, response,
                   open_conns, validated, requests, log>>

\* else: the zero-jobs diagnostic.
ZeroJobsDiagnostic ==
    /\ pc = "branch"
    /\ all_jobs = <<>>
    /\ LET made == DataFrameFromDict(zero_jobs_data)
       IN  IF made.raised
           THEN exc' = "ValueError" /\ pc' = "except" /\ df' = df
           ELSE /\ exc' = exc
                /\ pc' = "return"
                /\ df' = [columns |-> made.columns, rows |-> made.rows]
    /\ UNCHANGED <<config_vars, locals_bound, max_pages, target_jobs, page, all_jobs,
                   api_response_received, pages_fetched, jobs_found_count, response,
                   open_conns, validated, requests, log>>

\* except Exception as e: the PYTHON_ERROR diagnostic.  An exception raised
\* inside this handler would leave the entry point.
PythonErrorHandler ==
    /\ pc = "except"
    /\ LET made == DataFrameFromDict(python_error_data)
       IN  IF made.raised
           THEN pc' = "propagated" /\ df' = df
           ELSE /\ pc' = "return"
                /\ df' = [columns |-> made.columns, rows |-> made.rows]
    /\ UNCHANGED <<config_vars, locals_bound, max_pages, target_jobs, page, all_jobs,
                   api_response_received, pages_fetched, jobs_found_count, response,
                   open_conns, exc, validated, requests, log>>

\* return df
Return ==
    /\ pc = "return"
    /\ pc' = "done"
    /\ UNCHANGED <<config_vars, locals_bound, max_pages, target_jobs, page, all_jobs,
                   api_response_received, pages_fetched, jobs_found_count, response,
                   open_conns, exc, df, validated, requests, log>>

Next ==
    \/ CredentialsOk
    \/ CredentialError
    \/ ForPage
    \/ Request
    \/ ReadResponse
    \/ ReadFails
    \/ ParseFails
    \/ ProcessPage
    \/ PageError
    \/ CountJobs
    \/ NormalizeJobs
    \/ ZeroJobsDiagnostic
    \/ PythonErrorHandler
    \/ Return

Spec == Init /\ [][Next]_vars


\* ------------------------------------------------------------------ claims
IsDiagnostic(t) == "Status" \in Range(t.columns)
IsResultTable(t) == ~IsDiagnostic(t) /\ t.columns = final_columns /\ Len(t.rows) >= 1
Cell(t, c) == t.rows[1][c].v

KeyMissing == ~JOB_API_KEY.is_set \/ JOB_API_KEY.value = ""

AllMappings(items) == \A i \in 1..Len(items) : IsMapping(items[i])

\* The jobs of the first n pages of the log, concatenated.
RECURSIVE ConcatJobs(_, _)
ConcatJobs(entries, n) ==
    IF n = 0 THEN <<>> ELSE ConcatJobs(entries, n - 1) \o entries[n].jobs

Failed(entry) ==
    entry.outcome \in {"connect_failed", "send_failed", "read_failed",
                       "malformed", "not_object"}

TransportFailed(entry) ==
    entry.outcome \in {"connect_failed", "send_failed", "read_failed"}

LoopStopped == pc \in {"after_loop", "branch", "except", "return", "done"}

\* C1: with the API key missing (unset or empty) the entry point returns a
\* table of exactly one row whose Status is CREDENTIAL_ERROR.
C1_MissingKeyReturnsCredentialError ==
    (pc = "done" /\ KeyMissing) =>
        /\ IsDiagnostic(df)
        /\ Len(df.rows) = 1
        /\ Cell(df, "Status") = <<"CREDENTIAL_ERROR">>

\* C2: whatever the credentials, the pages' outcomes and the exceptions
\* raised inside, no exception leaves the entry point, and what is returned
\* is one table: a ResultTable without a Status column or a diagnostic of
\* one row with one.
C2_OneTableNeverAnException ==
    /\ pc # "propagated"
    /\ pc = "done" =>
          \/ IsResultTable(df)
          \/ IsDiagnostic(df) /\ Len(df.rows) = 1

C2_Witness ==
    /\ pc = "done"
    /\ script = "vscode"
    /\ exc = "AttributeError"
    /\ Len(log) = 2
    /\ IsDiagnostic(df)

\* C3: a request is issued only after credential validation has completed,
\* and never when the API key is missing.
C3_ValidationBeforeAnyRequest ==
    requests # <<>> => validated /\ ~KeyMissing

C3_Witness ==
    /\ pc = "done"
    /\ JOB_API_KEY = KeyEmpty
    /\ validated
    /\ requests = <<>>

\* C4: if page k is the first page with zero jobs and pages 1..k-1 each
\* returned jobs, then pages 1..k were requested and no other, all_jobs is
\* the concatenation of pages 1..k-1, pages_fetched is k, and a non-empty
\* list of job mappings is returned as a ResultTable.
C4_EmptyPageStopsTheLoop ==
    \A k \in 1..Len(log) :
        (log[k].outcome = "empty" /\ \A i \in 1..(k - 1) : log[i].outcome = "jobs") =>
            /\ k = Len(log)
            /\ requests = [i \in 1..k |-> i]
            /\ all_jobs = ConcatJobs(log, k - 1)
            /\ pages_fetched = k
            /\ (pc = "done" /\ all_jobs # <<>> /\ AllMappings(all_jobs)) =>
                   IsResultTable(df)

C4_Witness ==
    /\ pc = "done"
    /\ Len(log) = 3
    /\ log[3].outcome = "empty"
    /\ Len(all_jobs) = 2
    /\ IsResultTable(df)

\* C5: when page k fails, no later page is requested, all_jobs is what pages
\* 1..k-1 gave, and a non-empty list of job mappings is normalized and
\* returned as a ResultTable.
C5_PageErrorKeepsEarlierPages ==
    \A k \in 1..Len(log) :
        Failed(log[k]) =>
            /\ k = Len(log)
            /\ requests = [i \in 1..k |-> i]
            /\ all_jobs = ConcatJobs(log, k - 1)
            /\ (pc = "done" /\ all_jobs # <<>> /\ AllMappings(all_jobs)) =>
                   /\ IsResultTable(df)
                   /\ df.rows = Normalizer(all_jobs).rows

C5_Witness ==
    /\ pc = "done"
    /\ Len(log) = 2
    /\ log[2].outcome = "malformed"
    /\ all_jobs = <<Job1, Job2>>
    /\ IsResultTable(df)

\* C6: with a valid key and max_pages >= 1, a transport failure of page 1
\* gives the one-row diagnostic ERROR with Jobs_Found 0,
\* API_Response_Received False and Pages_Fetched 0.
C6_FirstPageTransportFailure ==
    (pc = "done" /\ ~KeyMissing /\ max_pages >= 1
        /\ Len(log) >= 1 /\ TransportFailed(log[1])) =>
        /\ IsDiagnostic(df)
        /\ Len(df.rows) = 1
        /\ Cell(df, "Status") = <<"ERROR">>
        /\ Cell(df, "Jobs_Found") = <<"0">>
        /\ Cell(df, "API_Response_Received") = <<"False">>
        /\ Cell(df, "Pages_Fetched") = <<"0">>

C6_Witness ==
    /\ pc = "done"
    /\ max_pages >= 2
    /\ Len(log) = 1
    /\ log[1].outcome = "connect_failed"
    /\ Cell(df, "Status") = <<"ERROR">>

\* C7: when the page loop has stopped, pages_fetched is the number of pages
\* whose fetch succeeded; a page with a malformed body is not one of them.
C7_PagesFetchedCountsSuccessfulPages ==
    LoopStopped =>
        pages_fetched = Cardinality({i \in 1..Len(log) : ~Failed(log[i])})


\* ------------------------------------------------- the normalizer on its own
LocTokens == {"a", "b", Blank, Comma}

\* Jobs whose id is left out, the text N/A, a number or the same digits as a
\* text, and that come with a location and a snippet or with neither.
RichJobs ==
    {RawJob(id, rest.location, rest.snippet) :
        id \in {Absent, Present(TextCell(NA)), Present(IntCell(<<"1">>)),
                Present(TextCell(<<"1">>))},
        rest \in {[location |-> Present(TextCell(<<"a", ",", " ", "b">>)),
                   snippet |-> Present(TextCell(<<"x">>))],
                  [location |-> Absent, snippet |-> Present(Null)]}}

\* The accumulated lists the normalizer is applied to: up to MaxJobs jobs,
\* and single jobs with every location text of up to MaxLocLen tokens.
NormInputs ==
    (SeqsUpTo(RichJobs, MaxJobs) \ {<<>>})
    \cup {<<RawJob(Present(IntCell(<<"1">>)), Present(TextCell(loc)), Absent)>> :
             loc \in SeqsUpTo(LocTokens, MaxLocLen)}

\* The page loop has ended after one page that returned the list.
NormInit ==
    /\ script \in {"tableau", "vscode"}
    /\ JOB_API_KEY = KeyGiven
    /\ DEFAULT_MAX_PAGES = 1
    /\ DEFAULT_TARGET_JOBS = 1
    /\ pc = "after_loop"
    /\ locals_bound = TRUE
    /\ max_pages = 1
    /\ target_jobs = 1
    /\ page = 1
    /\ all_jobs \in NormInputs
    /\ api_response_received = TRUE
    /\ pages_fetched = 1
    /\ jobs_found_count = 0
    /\ response = NoResponse
    /\ open_conns = {}
    /\ exc = "none"
    /\ df = NoTable
    /\ validated = TRUE
    /\ requests = <<1>>
    /\ log = <<[page |-> 1, outcome |-> "jobs", jobs |-> all_jobs]>>
    /\ tableau_run = NoRun

NormNext ==
    \/ CountJobs
    \/ NormalizeJobs
    \/ Return

NormSpec == NormInit /\ [][NormNext]_vars

\* The (id, title, company) of a raw job as the API sent it, a field left
\* out or null read as the N/A it defaults to.
RawTriple(item) ==
    [k \in 1..Len(dedupe_subset) |->
        IF dedupe_subset[k] \in Keys(item) /\ item.fields[dedupe_subset[k]].t # "null"
        THEN item.fields[dedupe_subset[k]]
        ELSE TextCell(NA)]

FirstOccurrences(keys) ==
    {i \in 1..Len(keys) : \A j \in 1..(i - 1) : keys[j] # keys[i]}

NthOf(S, n) == CHOOSE i \in S : Cardinality({k \in S : k < i}) = n - 1

\* out holds, in order, the rows of `before` at the first occurrences of keys.
OneRowPerKey(keys, before, out) ==
    /\ Len(out) = Cardinality(FirstOccurrences(keys))
    /\ \A n \in 1..Len(out) : out[n] = before[NthOf(FirstOccurrences(keys), n)]

\* The rows of the normalization block before deduplication: N/A filled,
\* coerced to text, with city and state.
PreparedRows == Prepared(DataFrame(all_jobs)).rows

\* C8 as stated: one output row per distinct (id, title, company) of the
\* input jobs, the row of the first job with that triple, in that order.
C8_OneRowPerInputTriple ==
    (pc = "done" /\ IsResultTable(df)) =>
        OneRowPerKey([i \in 1..Len(all_jobs) |-> RawTriple(all_jobs[i])],
                     PreparedRows, df.rows)

\* C8 amended: one output row per distinct (id, title, company) of the
\* N/A-filled, text-coerced rows, the first row with that triple, in the
\* order of the first occurrences.
C8_OneRowPerCoercedTriple ==
    (pc = "done" /\ IsResultTable(df)) =>
        OneRowPerKey([i \in 1..Len(all_jobs) |->
                         SubsetKey(PreparedRows[i], dedupe_subset)],
                     PreparedRows, df.rows)

C8_Witness ==
    /\ pc = "done"
    /\ Len(all_jobs) = 3
    /\ Len(df.rows) = 2
    /\ SubsetKey(PreparedRows[1], dedupe_subset) = SubsetKey(PreparedRows[3], dedupe_subset)
    /\ PreparedRows[1] # PreparedRows[3]
    /\ df.rows[2] = PreparedRows[2]

FirstComma(s) == CHOOSE i \in 1..Len(s) : s[i] = Comma /\ \A j \in 1..(i - 1) : s[j] # Comma
LastComma(s) == CHOOSE i \in 1..Len(s) : s[i] = Comma /\ \A j \in (i + 1)..Len(s) : s[j] # Comma

RowsAsJobs(t) == [i \in 1..Len(t.rows) |-> Mapping(t.rows[i])]

\* C10: the normalizer applied to the rows of its own output gives the same
\* table: the same columns, rows, order and cells.
C10_NormalizerIdempotent ==
    (pc = "done" /\ IsResultTable(df)) =>
        LET again == Normalizer(RowsAsJobs(df))
        IN  /\ ~again.raised
            /\ again.columns = df.columns
            /\ again.rows = df.rows

C10_Witness ==
    /\ pc = "done"
    /\ Len(all_jobs) = 3
    /\ Len(df.rows) = 2
    /\ df.rows[1]["id"].v = <<"1.0">>
    /\ df.rows[2]["id"].v = NA
    /\ df.rows[1]["state"].v = <<"b">>


\* The places in all_jobs of the first occurrences of each coerced
\* (id, title, company): the n-th output row is made from the n-th of them.
SourcePlaces ==
    LET rows == PreparedRows
    IN  FirstOccurrences([i \in 1..Len(all_jobs) |-> SubsetKey(rows[i], dedupe_subset)])

SourceJob(n) == all_jobs[NthOf(SourcePlaces, n)]

\* C11: a returned ResultTable has the twelve columns in their order and
\* no other field, every cell is text, and an API-sourced field the raw job
\* left out or sent as null is N/A.
C11_TwelveTextColumns ==
    (pc = "done" /\ ~IsDiagnostic(df)) =>
        /\ df.columns = <<"id", "title", "company", "location", "city", "state",
                          "snippet", "salary", "type", "source", "link", "updated">>
        /\ \E places \in {SourcePlaces} :
              \A n \in 1..Len(df.rows) :
                 /\ DOMAIN df.rows[n] = Range(df.columns)
                 /\ \A c \in DOMAIN df.rows[n] : df.rows[n][c].t = "text"
                 /\ \E job \in {all_jobs[NthOf(places, n)]} :
                       \A c \in Range(required_columns) :
                          (c \notin Keys(job) \/ job.fields[c].t = "null")
                              => df.rows[n][c].v = <<"N/A">>

C11_Witness ==
    /\ pc = "done"
    /\ ~IsDiagnostic(df)
    /\ Len(df.rows) = 2
    /\ "id" \notin Keys(SourceJob(2))
    /\ SourceJob(2).fields["snippet"].t = "null"
    /\ "extra" \in Keys(SourceJob(2))
    /\ df.rows[1]["id"].v = <<"1.0">>


\* ------------------------------------------------- the two entry points
\* The Tableau script's body has returned; the host calls get_job_data
\* under the same configuration, with its variables as it initialises them.
SecondRun ==
    /\ pc = "done"
    /\ script = "tableau"
    /\ ~tableau_run.done
    /\ tableau_run' = [done |-> TRUE, df |-> df, log |-> log]
    /\ script' = "vscode"
    /\ pc' = "start"
    /\ locals_bound' = FALSE
    /\ max_pages' = 0
    /\ target_jobs' = 0
    /\ page' = 0
    /\ all_jobs' = <<>>
    /\ api_response_received' = FALSE
    /\ pages_fetched' = 0
    /\ jobs_found_count' = 0
    /\ response' = NoResponse
    /\ open_conns' = {}
    /\ exc' = "none"
    /\ df' = NoTable
    /\ validated' = FALSE
    /\ requests' = <<>>
    /\ log' = <<>>
    /\ UNCHANGED <<JOB_API_KEY, DEFAULT_MAX_PAGES, DEFAULT_TARGET_JOBS>>

\* The response r is the one the page of this log entry was answered with
\* (whatever its status line, which neither entry point reads).
Answers(r, entry) ==
    \/ entry.outcome \in {"malformed", "not_object"} /\ r.body.kind = entry.outcome
    \/ /\ entry.outcome \in {"jobs", "empty"}
       /\ r.body.kind \in {"no_jobs_key", "jobs"}
       /\ r.body.jobs = entry.jobs

\* In get_job_data's run each page has the outcome it had in the Tableau
\* script's run.
SamePageOutcomes ==
    tableau_run.done =>
        /\ Len(log') <= Len(tableau_run.log)
        /\ log' = SubSeq(tableau_run.log, 1, Len(log'))
        /\ pc' = "getresponse" =>
              /\ page' <= Len(tableau_run.log)
              /\ tableau_run.log[page'].outcome \notin {"connect_failed", "send_failed"}
        /\ pc' = "parse" => Answers(response', tableau_run.log[page'])

PairInit == Init /\ script = "tableau"

\* Each entry point takes the steps of Next; the second one under the first
\* one's page outcomes.
PairNext ==
    \/ CredentialsOk /\ SamePageOutcomes
    \/ CredentialError /\ SamePageOutcomes
    \/ ForPage /\ SamePageOutcomes
    \/ Request /\ SamePageOutcomes
    \/ ReadResponse /\ SamePageOutcomes
    \/ ReadFails /\ SamePageOutcomes
    \/ ParseFails /\ SamePageOutcomes
    \/ ProcessPage /\ SamePageOutcomes
    \/ PageError /\ SamePageOutcomes
    \/ CountJobs /\ SamePageOutcomes
    \/ NormalizeJobs /\ SamePageOutcomes
    \/ ZeroJobsDiagnostic /\ SamePageOutcomes
    \/ PythonErrorHandler /\ SamePageOutcomes
    \/ Return /\ SamePageOutcomes
    \/ SecondRun

PairSpec == PairInit /\ [][PairNext]_vars

\* C12: under the same configuration (the key may be missing) and the same
\* outcome of each page, the Tableau script's body and get_job_data return
\* tables of one kind and shape: two ResultTables with the same rows, or two
\* diagnostics with the same Status and the same column names.
C12_SameKindAndShape ==
    (tableau_run.done /\ pc = "done") =>
        \/ /\ ~IsDiagnostic(tableau_run.df)
           /\ ~IsDiagnostic(df)
           /\ tableau_run.df.rows = df.rows
        \/ /\ IsDiagnostic(tableau_run.df)
           /\ IsDiagnostic(df)
           /\ Cell(tableau_run.df, "Status") = Cell(df, "Status")
           /\ Range(tableau_run.df.columns) = Range(df.columns)


\* The pages whose response was read (whether or not its body parsed).
PagesRead == {i \in 1..Len(log) : ~TransportFailed(log[i])}

\* C13: in the zero-jobs diagnostic (Status ERROR) Pages_Attempted is the
\* number of pages a request was issued for and Pages_Fetched the number of
\* pages fetched, whatever max_pages is and however the first page ended.
C13_PagesAttemptedAndFetched ==
    (pc = "done" /\ IsDiagnostic(df) /\ Cell(df, "Status") = <<"ERROR">>) =>
        /\ Cell(df, "Pages_Attempted") = StrNat(Len(requests))
        /\ Cell(df, "Pages_Fetched") = StrNat(Cardinality(PagesRead))


\* What is left of the loop: the pages not yet reached, then the current
\* page's remaining steps; 0 once the loop has stopped.
LoopRank ==
    CASE pc = "request"     -> 5 * (max_pages - page) + 5
      [] pc = "getresponse" -> 5 * (max_pages - page) + 4
      [] pc = "parse"       -> 5 * (max_pages - page) + 3
      [] pc = "loop"        -> 5 * (max_pages - page) + 2
      [] pc = "page_except" -> 5 * (max_pages - page) + 1
      [] OTHER              -> 0

C14_Order ==
    /\ requests = [p \in 1..Len(requests) |-> p]
    /\ Len(requests) <= max_pages
    /\ \A p \in 1..(Len(requests) - 1) :
          /\ log[p].outcome = "jobs"
          /\ log[p].jobs # <<>>
          /\ Len(ConcatJobs(log, p)) < target_jobs
          /\ p < max_pages
    /\ LoopRank >= 0

C14_Step ==
    /\ LoopStopped => LoopStopped' /\ requests' = requests
    /\ LoopRank > 0 => LoopRank' < LoopRank

\* C14: pages are requested in the order 1, 2, 3, ..., none twice and none
\* skipped, at most max_pages of them; page p+1 is requested only when page
\* p returned a non-empty list, the jobs accumulated after page p are fewer
\* than target_jobs and p < max_pages; every step of the loop brings its end
\* nearer (so it terminates), and after a stop no request is made.
C14_PagesInOrderUntilAStop == []C14_Order /\ [][C14_Step]_vars

C14_Witness ==
    /\ pc = "done"
    /\ max_pages = 4
    /\ target_jobs = 4
    /\ requests = <<1, 2, 3>>
    /\ log[3].outcome = "empty"


\* C15: a page answered with a status outside 2xx is a failed fetch: none
\* of the jobs of its body is added to the accumulated list, and the loop
\* stops with a page error.
C15_NonSuccessStatusIsAFailedFetch ==
    [][(pc = "parse" /\ response.status \notin 200..299) =>
           (all_jobs' = all_jobs /\ pc' = "page_except")]_vars


\* C16: the connection opened for a page is closed before the connection of
\* the next page is opened and before the entry point returns, on the
\* failure paths too: at most one connection is open at a time, and none
\* when the entry point returns.
C16_ConnectionsClosed ==
    /\ Cardinality(open_conns) <= 1
    /\ pc = "request" => open_conns = {}
    /\ pc \in {"return", "done"} => open_conns = {}

=============================================================================
